---- MODULE Spec2Model ----
(***************************************************************************)
(* Model of the translation pipeline of                                    *)
(* src/streamlit/01_streamlit_basics/solutions.py and of the two-stage     *)
(* flow of ai_powered_text_translate.py in the same directory.             *)
(*                                                                         *)
(* Python strings are sequences of one-character strings, so that strip(), *)
(* lower(), split() and the regular expression of apply_glossary are       *)
(* computed character by character.  Python's None is the one-element      *)
(* sequence NONE, whose element is not a character; an exception raised by *)
(* an external service is the outcome RAISE.                               *)
(***************************************************************************)
EXTENDS Integers, Sequences, FiniteSets, TLC

VARIABLES
    openai_client,  \* solutions.openai_client: TRUE iff a client is configured
    call,           \* the call being made: its function and arguments
    env,            \* what the external services answer during the call
    ret,            \* what the call produced
    chat_history    \* st.session_state['chat_history'] of the app

vars == <<openai_client, call, env, ret, chat_history>>

----------------------------------------------------------------------------
(* Values *)

NONE == <<"<None>">>
RAISE == <<"<raise>">>
\* langdetect's LangDetectException, as an outcome of langdetect.detect
LANG_DETECT_EXCEPTION == <<"<LangDetectException>">>

AUTO == <<"a", "u", "t", "o">>
UND == <<"u", "n", "d">>

\* Python truthiness of an Optional[str]
Truthy(s) == s # NONE /\ s # <<>>

\* str.isspace of one character
IsSpace(c) == c \in {" ", "\n", "\t"}

\* str.lower of one character
LowerChar(c) ==
    CASE c = "A" -> "a"
      [] c = "B" -> "b"
      [] c = "E" -> "e"
      [] c = "S" -> "s"
      [] c = "X" -> "x"
      [] OTHER -> c

\* str.lower
Lower(s) == [i \in 1..Len(s) |-> LowerChar(s[i])]

RECURSIVE LStrip(_)
LStrip(s) == IF s # <<>> /\ IsSpace(Head(s)) THEN LStrip(Tail(s)) ELSE s

RECURSIVE RStrip(_)
RStrip(s) ==
    IF s # <<>> /\ IsSpace(s[Len(s)]) THEN RStrip(SubSeq(s, 1, Len(s) - 1)) ELSE s

StripBody(s) == RStrip(LStrip(s))

\* str.strip
Strip(s) == StripBody(s)

\* len(text.split()): the number of maximal runs of non-whitespace characters
WordCount(s) ==
    Cardinality({i \in 1..Len(s) :
                    /\ ~IsSpace(s[i])
                    /\ (i = 1 \/ IsSpace(s[i - 1]))})

----------------------------------------------------------------------------
(* Language detection *)

\* One entry of the log of calls to external services made during a call:
\* the service and the source language it was given (NONE where it takes none)
Called(fn, src) == [fn |-> fn, src |-> src]

\* detect_via_openai: `content` is what the chat completion answers (NONE for
\* no choices or no content, RAISE for an error of the request)
detect_via_openai(text, client, content) ==
    IF ~client THEN NONE
    ELSE IF content = RAISE THEN NONE
    ELSE IF ~Truthy(content) THEN NONE
    ELSE Lower(Strip(content))

\* (variant) the short-text path ends below six tokens
ShortTextPathUnderSix(text, client) == client /\ WordCount(text) < 6

\* if openai_client and words <= 6
ShortTextPath(text, client) == client /\ WordCount(text) <= 6

\* the except clause around langdetect.detect: TRUE iff the outcome is caught
DetectCaught(outcome) == outcome = LANG_DETECT_EXCEPTION

\* detect_language: e.llm_detect is the answer of the chat completion,
\* e.stat_detect the outcome of langdetect.detect (a code, the library's
\* LANG_DETECT_EXCEPTION, or RAISE for any other error).
\* The result is [val, raised, calls].
detect_language(text, client, e) ==
    LET short == ShortTextPath(text, client)
        code  == IF short THEN detect_via_openai(text, client, e.llm_detect) ELSE NONE
        c1    == IF short THEN <<Called("detect_via_openai", NONE)>> ELSE <<>>
        c2    == c1 \o <<Called("detect", NONE)>>
    IN  IF short /\ Truthy(code)
        THEN [val |-> code, raised |-> FALSE, calls |-> c1]
        ELSE IF e.stat_detect = RAISE \/ e.stat_detect = LANG_DETECT_EXCEPTION
        THEN IF DetectCaught(e.stat_detect)
             THEN [val |-> NONE, raised |-> FALSE, calls |-> c2]
             ELSE [val |-> NONE, raised |-> TRUE, calls |-> c2]
        ELSE [val |-> e.stat_detect, raised |-> FALSE, calls |-> c2]

----------------------------------------------------------------------------
(* Translation backends and their selector *)

\* the language translate_via_openai names in its system prompt (src_hint),
\* NONE when the prompt names none
SrcHint(source_lang) ==
    IF Truthy(source_lang) /\ source_lang # AUTO THEN source_lang ELSE NONE

\* translate_via_openai: the content of the first choice, unchanged
translate_via_openai(text, target_lang, source_lang, client, content) ==
    IF ~client THEN NONE
    ELSE IF content = RAISE THEN NONE
    ELSE content

\* the source translate_via_google hands to GoogleTranslator
GoogleSrc(source_lang) ==
    IF ~Truthy(source_lang) \/ source_lang = AUTO THEN AUTO ELSE source_lang

\* translate_via_google
translate_via_google(text, target_lang, source_lang, content) ==
    IF content = RAISE THEN NONE ELSE content

\* (variant) the resolved language is handed to the primary backend
OpenAISourceArgDetected(source_lang, detected) == detected

\* the source language translate passes on to translate_via_openai
OpenAISourceArg(source_lang, detected) == source_lang

\* (variant) the backend's answer is returned as it came
ReturnedUnstripped(out) == out

\* (variant) an answer that strips to nothing is reported as no translation
ReturnedOrNone(out) == IF Strip(out) = <<>> THEN NONE ELSE Strip(out)

\* what translate returns from a truthy backend answer
Returned(out) == Strip(out)

\* if openai_client: (the guard of the primary backend in translate)
TryPrimary(client) == client

\* (variant) the secondary backend is tried only when no client is configured
translate_backends_no_fallback(text, target_lang, source_lang, client, e, detected, d_calls) ==
    LET out1 == translate_via_openai(text, target_lang, source_lang, client, e.openai)
        c1   == d_calls \o <<Called("translate_via_openai", SrcHint(source_lang))>>
        out2 == translate_via_google(text, target_lang, source_lang, e.google)
        c2   == d_calls \o <<Called("translate_via_google", GoogleSrc(source_lang))>>
    IN  IF client
        THEN [raised |-> FALSE,
              translated |-> IF Truthy(out1) THEN Strip(out1) ELSE NONE,
              detected |-> detected, calls |-> c1]
        ELSE [raised |-> FALSE,
              translated |-> IF Truthy(out2) THEN Strip(out2) ELSE NONE,
              detected |-> detected, calls |-> c2]

\* (variant) the secondary backend is tried first, the primary one after it
translate_backends_secondary_first(text, target_lang, source_lang, client, e, detected, d_calls) ==
    LET out2 == translate_via_google(text, target_lang, source_lang, e.google)
        c2   == d_calls \o <<Called("translate_via_google", GoogleSrc(source_lang))>>
        out1 == translate_via_openai(text, target_lang, source_lang, client, e.openai)
        c1   == IF client
                THEN c2 \o <<Called("translate_via_openai", SrcHint(source_lang))>>
                ELSE c2
    IN  IF Truthy(out2)
        THEN [raised |-> FALSE, translated |-> Strip(out2),
              detected |-> detected, calls |-> c2]
        ELSE [raised |-> FALSE,
              translated |-> IF Truthy(out1) THEN Strip(out1) ELSE NONE,
              detected |-> detected, calls |-> c1]

\* translate, after `detected` is resolved; d_calls are the calls made so far
translate_backends(text, target_lang, source_lang, client, e, detected, d_calls) ==
    LET arg   == OpenAISourceArg(source_lang, detected)
        out1  == IF TryPrimary(client)
                 THEN translate_via_openai(text, target_lang, arg, client, e.openai)
                 ELSE NONE
        c1    == IF TryPrimary(client)
                 THEN d_calls \o <<Called("translate_via_openai", SrcHint(arg))>>
                 ELSE d_calls
        out2  == translate_via_google(text, target_lang, source_lang, e.google)
        c2    == c1 \o <<Called("translate_via_google", GoogleSrc(source_lang))>>
    IN  IF TryPrimary(client) /\ Truthy(out1)
        THEN [raised |-> FALSE, translated |-> Returned(out1),
              detected |-> detected, calls |-> c1]
        ELSE IF Truthy(out2)
        THEN [raised |-> FALSE, translated |-> Returned(out2),
              detected |-> detected, calls |-> c2]
        ELSE [raised |-> FALSE, translated |-> NONE,
              detected |-> detected, calls |-> c2]

\* (variant) 'auto' is taken for a language code
SourceGivenIgnoringAuto(source_lang) == Truthy(source_lang)

\* source_lang and source_lang != 'auto'
SourceGiven(source_lang) == Truthy(source_lang) /\ source_lang # AUTO

\* translate: the result is [raised, translated, detected, calls]; when the
\* call raises there is no returned pair and both components are NONE
translate(text, target_lang, source_lang, client, e) ==
    IF SourceGiven(source_lang)
    THEN translate_backends(text, target_lang, source_lang, client, e,
                            source_lang, <<>>)
    ELSE LET d == detect_language(text, client, e)
         IN  IF d.raised
             THEN [raised |-> TRUE, translated |-> NONE, detected |-> NONE,
                   calls |-> d.calls]
             ELSE translate_backends(text, target_lang, source_lang, client, e,
                                     IF Truthy(d.val) THEN d.val ELSE UND,
                                     d.calls)

----------------------------------------------------------------------------
(* The calls of translate: inputs, answers of the services, specification *)

\* the longest answer of a translation backend
MaxAnswerLen == 3

\* all strings over `alphabet` of at most n characters
Strings(alphabet, n) == UNION {[1..k -> alphabet] : k \in 0..n}

ShortText == <<"h", "i">>
\* seven whitespace-separated tokens: beyond the short-text path
LongText == <<"a", " ", "a", " ", "a", " ", "a", " ", "a", " ", "a", " ", "a">>
Texts == {ShortText, LongText}

TargetLangs == {<<"e", "s">>}
SourceLangs == {NONE, <<>>, AUTO, <<"d", "e">>}

\* answers of the chat completion asked for a language code
LLMDetectAnswers == {NONE, RAISE, <<" ">>, <<" ", "E", "S">>}
\* outcomes of langdetect.detect
StatDetectOutcomes == {<<"e", "n">>, LANG_DETECT_EXCEPTION, RAISE}
\* answers of a translation backend
BackendAnswers == {NONE, RAISE} \cup Strings({"x", " "}, MaxAnswerLen)

TranslateEnvs ==
    [llm_detect : LLMDetectAnswers, stat_detect : StatDetectOutcomes,
     openai : BackendAnswers, google : BackendAnswers]

Idle == [op |-> "idle"]

\* the calls translate(text, target_lang, source_lang) about to be made
TranslateCalls ==
    [op : {"translate"}, text : Texts, target_lang : TargetLangs,
     source_lang : SourceLangs]

\* a call is about to be made, with the answers the services will give to it
InitTranslate ==
    /\ openai_client \in BOOLEAN
    /\ call \in TranslateCalls
    /\ env \in TranslateEnvs
    /\ ret = Idle
    /\ chat_history = <<>>

\* the call translate(text, target_lang, source_lang) runs to its end
TranslateCall ==
    /\ call.op = "translate"
    /\ ret = Idle
    /\ ret' = translate(call.text, call.target_lang, call.source_lang,
                        openai_client, env)
    /\ UNCHANGED <<openai_client, call, env, chat_history>>

NextTranslate == TranslateCall

SpecTranslate == InitTranslate /\ [][NextTranslate]_vars

----------------------------------------------------------------------------
(* Properties of translate *)

\* the call has run to its end (it returned or it raised)
TranslateDone == call.op = "translate" /\ ret # Idle

\* the call returned a pair
TranslateReturned == TranslateDone /\ ~ret.raised

\* a service answered with non-empty text
IsText(answer) == answer # NONE /\ answer # RAISE /\ answer # <<>>

\* the external service fn was called during the call
Attempted(fn) == \E i \in 1..Len(ret.calls) : ret.calls[i].fn = fn

\* the primary backend is unavailable, raises or answers nothing
PrimaryFails == ~openai_client \/ ~IsText(env.openai)

\* the secondary backend raises or answers nothing
SecondaryFails == ~IsText(env.google)

\* the caller named the source language
SourceIsGiven == call.source_lang \notin {NONE, <<>>, AUTO}

\* the language a call of translate is to report
ExpectedDetected ==
    IF SourceIsGiven THEN call.source_lang
    ELSE LET d == detect_language(call.text, openai_client, env)
         IN  IF d.val \in {NONE, <<>>} THEN UND ELSE d.val

\* C1: in every call of translate that comes to the backends with the primary
\* backend unavailable, raising or answering nothing, the secondary backend is
\* attempted, and if it answers a non-empty string X the call returns
\* (X stripped, detected).
C1_FallbackOrdering ==
    (TranslateReturned /\ PrimaryFails) =>
        /\ Attempted("translate_via_google")
        /\ IsText(env.google) =>
              /\ ret.translated = Strip(env.google)
              /\ ret.detected = ExpectedDetected

C1_Witness ==
    /\ TranslateReturned
    /\ openai_client
    /\ env.openai = RAISE
    /\ env.google = <<" ", "x", " ">>
    /\ Attempted("translate_via_openai")
    /\ Attempted("translate_via_google")
    /\ ret.translated = <<"x">>

\* C2: the secondary backend is never called before the primary one; with a
\* client configured it is called only after the primary one; and when the
\* primary backend is called and answers non-empty content, translate returns
\* that content (stripped) and the secondary backend is not called.
C2_PrimaryFirst ==
    TranslateDone =>
        /\ \A i, j \in 1..Len(ret.calls) :
              (ret.calls[i].fn = "translate_via_google"
                  /\ ret.calls[j].fn = "translate_via_openai") => j < i
        /\ (openai_client /\ Attempted("translate_via_google"))
              => Attempted("translate_via_openai")
        /\ (Attempted("translate_via_openai") /\ IsText(env.openai)) =>
              /\ ~ret.raised
              /\ ret.translated = Strip(env.openai)
              /\ ~Attempted("translate_via_google")

C2_Witness ==
    /\ TranslateReturned
    /\ env.openai = <<"x", " ", "x">>
    /\ IsText(env.google)
    /\ Attempted("translate_via_openai")
    /\ ~Attempted("translate_via_google")
    /\ ret.translated = <<"x", " ", "x">>

\* C3: a returned translation is None exactly when both backends failed
\* (unavailable, raising or answering nothing), and then the pair is
\* (None, detected).
C3_NoneIffAllFailed ==
    TranslateReturned =>
        /\ (ret.translated = NONE) <=> (PrimaryFails /\ SecondaryFails)
        /\ ret.translated = NONE => ret.detected = ExpectedDetected

C3_Witness ==
    /\ TranslateReturned
    /\ openai_client
    /\ env.openai = <<>>
    /\ env.google = RAISE
    /\ ret.translated = NONE
    /\ ret.detected = UND

\* C4: translate never raises to its caller, whatever the detector and the
\* backends do.
C4_NeverRaises == TranslateDone => ~ret.raised

\* C5: with source_lang given and not "auto" the detected language is
\* source_lang and no detector is called; otherwise the detector is called and
\* detected is its result, or "und" when it has none; the detected component
\* of every returned pair is a non-empty string.
C5_DetectedResolution ==
    TranslateDone =>
        /\ SourceIsGiven =>
              /\ ~ret.raised
              /\ ret.detected = call.source_lang
              /\ ~Attempted("detect_via_openai")
              /\ ~Attempted("detect")
        /\ ~SourceIsGiven =>
              /\ Attempted("detect_via_openai") \/ Attempted("detect")
              /\ ~ret.raised => ret.detected = ExpectedDetected
        /\ ~ret.raised => (ret.detected # NONE /\ ret.detected # <<>>)

C5_Witness ==
    /\ TranslateReturned
    /\ call.source_lang = AUTO
    /\ env.stat_detect = LANG_DETECT_EXCEPTION
    /\ Attempted("detect")
    /\ ret.detected = UND

\* C6 as claimed: the language named to the primary backend is the resolved
\* detected language whenever that is not "auto".
C6_HintIsDetected ==
    TranslateReturned =>
        \A i \in 1..Len(ret.calls) :
            (ret.calls[i].fn = "translate_via_openai" /\ ret.detected # AUTO)
                => ret.calls[i].src = ret.detected

\* C6 as amended: the language named to the primary backend is the caller's
\* source_lang when that is given and not "auto", and none otherwise, also
\* when detection succeeded.
C6_HintIsSourceLang ==
    TranslateDone =>
        \A i \in 1..Len(ret.calls) :
            ret.calls[i].fn = "translate_via_openai"
                => ret.calls[i].src =
                      (IF SourceIsGiven THEN call.source_lang ELSE NONE)

C6_Witness ==
    /\ TranslateReturned
    /\ call.source_lang = NONE
    /\ ret.detected = <<"e", "n">>
    /\ \E i \in 1..Len(ret.calls) :
          ret.calls[i] = Called("translate_via_openai", NONE)

\* C7: a returned translation that is a string neither starts nor ends with
\* whitespace.
C7_Stripped ==
    (TranslateReturned /\ ret.translated # NONE) =>
        \/ ret.translated = <<>>
        \/ /\ ~IsSpace(ret.translated[1])
           /\ ~IsSpace(ret.translated[Len(ret.translated)])

C7_Witness ==
    /\ TranslateReturned
    /\ ~openai_client
    /\ env.google = <<" ", "x", " ">>
    /\ ret.translated = <<"x">>

----------------------------------------------------------------------------
(* The glossary: apply_glossary *)

\* A glossary is the sequence of its <<term, replacement>> entries in the
\* dict's insertion order, the terms pairwise different and none of them the
\* empty string.  An absent glossary
\* (None) is NO_GLOSSARY, whose one entry has no string for a term.
NO_GLOSSARY == << <<NONE, NONE>> >>

\* not glossary
GlossaryFalsy(glossary) == glossary = NO_GLOSSARY \/ glossary = <<>>

\* \w of one character
IsWordChar(c) == c \in {"a", "A", "b", "B", "e", "E", "s", "S", "x", "X", "h", "i", "_"}

\* \b before the character at position p (p = Len(text) + 1: at the end)
WordBoundary(text, p) ==
    LET before == p > 1 /\ IsWordChar(text[p - 1])
        after  == p <= Len(text) /\ IsWordChar(text[p])
    IN  before # after

\* the characters re.escape puts a backslash before
IsSpecialChar(c) == c \in {" ", "\n", "\t", "-", ".", "|", "(", ")"}

RECURSIVE EscapedLen(_)
\* len(re.escape(term))
EscapedLen(term) ==
    IF term = <<>> THEN 0
    ELSE (IF IsSpecialChar(Head(term)) THEN 2 ELSE 1) + EscapedLen(Tail(term))

\* glossary.get(key), NONE when the key is absent
Get(glossary, key) ==
    IF \E i \in 1..Len(glossary) : glossary[i][1] = key
    THEN glossary[CHOOSE i \in 1..Len(glossary) : glossary[i][1] = key][2]
    ELSE NONE

\* (variant) sorted(..., key=len) without reverse=True: shorter terms first
SortedRankAscending(glossary, i) ==
    1 + Cardinality({j \in 1..Len(glossary) :
            \/ EscapedLen(glossary[j][1]) < EscapedLen(glossary[i][1])
            \/ /\ EscapedLen(glossary[j][1]) = EscapedLen(glossary[i][1])
               /\ j < i})

\* the place of entry i in sorted(..., key=len, reverse=True): longer escaped
\* terms first, entries of equal length in insertion order (the sort is stable)
SortedRank(glossary, i) ==
    1 + Cardinality({j \in 1..Len(glossary) :
            \/ EscapedLen(glossary[j][1]) > EscapedLen(glossary[i][1])
            \/ /\ EscapedLen(glossary[j][1]) = EscapedLen(glossary[i][1])
               /\ j < i})

\* terms: the alternatives of the pattern, in their order
SortedTerms(glossary) ==
    [r \in 1..Len(glossary) |->
        glossary[CHOOSE i \in 1..Len(glossary) : SortedRank(glossary, i) = r][1]]

\* the term matches the text at position p, letter case ignored (re.IGNORECASE)
TermMatchesAt(text, p, term) ==
    /\ p + Len(term) - 1 <= Len(text)
    /\ \A k \in 1..Len(term) : LowerChar(text[p + k - 1]) = LowerChar(term[k])

\* (variant) the pattern opens without \b
OpeningBoundaryIgnored(text, p) == TRUE

\* the opening \b of the pattern, for a match from p
OpeningBoundary(text, p) == WordBoundary(text, p)

\* (variant) the pattern closes without \b
ClosingBoundaryIgnored(text, p, len) == TRUE

\* the closing \b of the pattern, for a match of `len` characters from p
ClosingBoundary(text, p, len) == WordBoundary(text, p + len)

\* the length of the match of \b(t1|t2|...)\b at position p, 0 when there is
\* none: the first alternative, in order, with which the whole pattern matches
MatchLenAt(text, p, terms) ==
    LET ok(r) == /\ TermMatchesAt(text, p, terms[r])
                 /\ ClosingBoundary(text, p, Len(terms[r]))
    IN  IF OpeningBoundary(text, p) /\ \E r \in 1..Len(terms) : ok(r)
        THEN Len(terms[CHOOSE r \in 1..Len(terms) :
                           ok(r) /\ \A q \in 1..(r - 1) : ~ok(q)])
        ELSE 0

\* replace(match): glossary.get(word.lower()) or glossary.get(word), the word
\* itself when that is None
Replacement(glossary, word) ==
    LET low  == Get(glossary, Lower(word))
        repl == IF Truthy(low) THEN low ELSE Get(glossary, word)
    IN  IF repl # NONE THEN repl ELSE word

RECURSIVE Sub(_, _, _, _)
\* re.sub(pattern, replace, text) from position p on: the matches are found
\* left to right in the text as it came, a match is replaced and the scan
\* goes on behind it
Sub(text, p, terms, glossary) ==
    IF p > Len(text) THEN <<>>
    ELSE LET len == MatchLenAt(text, p, terms)
         IN  IF len > 0
             THEN Replacement(glossary, SubSeq(text, p, p + len - 1))
                      \o Sub(text, p + len, terms, glossary)
             ELSE <<text[p]>> \o Sub(text, p + 1, terms, glossary)

\* apply_glossary(text, glossary)
apply_glossary(text, glossary) ==
    IF GlossaryFalsy(glossary) THEN text
    ELSE Sub(text, 1, SortedTerms(glossary), glossary)

----------------------------------------------------------------------------
(* The calls of apply_glossary: inputs and specification *)

\* the longest text handed to apply_glossary
MaxTextLen == 4
\* the largest number of entries of a glossary
MaxTerms == 2

GlossaryAlphabet == {"a", "A", "b", " "}
GlossaryTexts == Strings(GlossaryAlphabet, MaxTextLen)

\* terms: a word in lower and in upper case, and a term of two words
GlossaryKeys == {<<"a">>, <<"A">>, <<"a", " ", "b">>}
\* replacements: nothing, a word, and two words of which one is a term
GlossaryValues == {<<>>, <<"b">>, <<"b", " ", "a">>}

\* the glossaries of at most MaxTerms entries, and the absent one
Glossaries ==
    {NO_GLOSSARY} \cup
    UNION {{g \in [1..n -> GlossaryKeys \X GlossaryValues] :
                \A i, j \in 1..n : g[i][1] = g[j][1] => i = j} : n \in 0..MaxTerms}

GlossaryCalls == [op : {"apply_glossary"}, text : GlossaryTexts, glossary : Glossaries]

\* a call apply_glossary(text, glossary) is about to be made
InitGlossary ==
    /\ openai_client = FALSE
    /\ call \in GlossaryCalls
    /\ env = Idle
    /\ ret = Idle
    /\ chat_history = <<>>

\* apply_glossary(text, glossary) returns
ApplyGlossaryCall ==
    /\ call.op = "apply_glossary"
    /\ ret = Idle
    /\ ret' = [outs |-> <<apply_glossary(call.text, call.glossary)>>]
    /\ UNCHANGED <<openai_client, call, env, chat_history>>

\* the caller applies the same glossary to the result: a second pass
ApplyGlossaryAgain ==
    /\ call.op = "apply_glossary"
    /\ ret # Idle
    /\ Len(ret.outs) = 1
    /\ ret' = [outs |-> ret.outs \o <<apply_glossary(ret.outs[1], call.glossary)>>]
    /\ UNCHANGED <<openai_client, call, env, chat_history>>

NextGlossary == ApplyGlossaryCall \/ ApplyGlossaryAgain

SpecGlossary == InitGlossary /\ [][NextGlossary]_vars

----------------------------------------------------------------------------
(* Properties of apply_glossary *)

\* apply_glossary has returned (once or twice)
GlossaryDone == call.op = "apply_glossary" /\ ret # Idle

\* the glossary has entries
HasEntries(glossary) == glossary # NO_GLOSSARY /\ glossary # <<>>

\* equal but for letter case
EqualCI(s, t) ==
    /\ Len(s) = Len(t)
    /\ \A k \in 1..Len(s) : LowerChar(s[k]) = LowerChar(t[k])

\* exactly one of the characters left and right of the gap before position p
\* is a word character
GapIsWordEdge(text, p) ==
    LET left  == IF p > 1 THEN IsWordChar(text[p - 1]) ELSE FALSE
        right == IF p <= Len(text) THEN IsWordChar(text[p]) ELSE FALSE
    IN  left # right

\* the n characters from position p are delimited by a word boundary on both
\* sides
Delimited(text, p, n) == GapIsWordEdge(text, p) /\ GapIsWordEdge(text, p + n)

\* a string of word characters only
WordOnly(s) == \A k \in 1..Len(s) : IsWordChar(s[k])

\* C8: a text that is a whole-word occurrence, in any letter case, of a
\* glossary term written in any letter case (and of no other term) is
\* replaced by that term's replacement.
C8_CaseInsensitiveLookup ==
    (GlossaryDone /\ HasEntries(call.glossary)) =>
        \A i \in 1..Len(call.glossary) :
            (/\ EqualCI(call.text, call.glossary[i][1])
             /\ Delimited(call.text, 1, Len(call.text))
             /\ \A j \in 1..Len(call.glossary) :
                    EqualCI(call.glossary[j][1], call.glossary[i][1]) => j = i)
                => ret.outs[1] = call.glossary[i][2]

SingleWordGlossary(glossary) ==
    /\ HasEntries(glossary)
    /\ \A i \in 1..Len(glossary) : WordOnly(glossary[i][1]) /\ WordOnly(glossary[i][2])
    /\ \A i, j \in 1..Len(glossary) : ~EqualCI(glossary[i][2], glossary[j][1])

RECURSIVE OnlyWholeWordsReplaced(_, _, _, _)
\* `out` is the text from position p on in which some occurrences of glossary
\* terms (letter case ignored), each delimited by word boundaries, are
\* replaced by the term's replacement and every other character is kept
OnlyWholeWordsReplaced(text, p, out, glossary) ==
    IF p > Len(text) THEN out = <<>>
    ELSE \/ /\ out # <<>>
            /\ Head(out) = text[p]
            /\ OnlyWholeWordsReplaced(text, p + 1, Tail(out), glossary)
         \/ \E i \in 1..Len(glossary) :
                LET n == Len(glossary[i][1])
                    v == glossary[i][2]
                IN  /\ p + n - 1 <= Len(text)
                    /\ EqualCI(SubSeq(text, p, p + n - 1), glossary[i][1])
                    /\ Delimited(text, p, n)
                    /\ Len(out) >= Len(v)
                    /\ SubSeq(out, 1, Len(v)) = v
                    /\ OnlyWholeWordsReplaced(text, p + n,
                           SubSeq(out, Len(v) + 1, Len(out)), glossary)

\* C10: apply_glossary replaces only occurrences of terms that are delimited by
\* a word boundary on both sides and returns the rest of the text unchanged;
\* with an empty or absent glossary it returns the text.
C10_WholeWordsOnly ==
    GlossaryDone =>
        IF HasEntries(call.glossary)
        THEN OnlyWholeWordsReplaced(call.text, 1, ret.outs[1], call.glossary)
        ELSE ret.outs[1] = call.text

C10_Witness ==
    /\ GlossaryDone
    /\ call.text = <<"a", "b", " ", "a">>
    /\ call.glossary = << <<(<<"a">>), (<<"b">>)>> >>
    /\ ret.outs[1] = <<"a", "b", " ", "b">>

\* the lengths of the terms that occur at position p, letter case ignored,
\* delimited by word boundaries
OccurringLens(text, p, glossary) ==
    {Len(glossary[i][1]) : i \in {j \in 1..Len(glossary) :
        /\ p + Len(glossary[j][1]) - 1 <= Len(text)
        /\ EqualCI(SubSeq(text, p, p + Len(glossary[j][1]) - 1), glossary[j][1])
        /\ Delimited(text, p, Len(glossary[j][1]))}}

\* the largest element of a non-empty set of numbers
Largest(S) == CHOOSE n \in S : \A m \in S : m <= n

RECURSIVE LongestFirstPass(_, _, _)
\* one pass over the text from position p on: where terms occur, the occurrence
\* of the longest one is taken and replaced by what the per-match lookup gives
\* for it, and the pass goes on behind the occurrence in the text as it came
LongestFirstPass(text, p, glossary) ==
    IF p > Len(text) THEN <<>>
    ELSE LET lens == OccurringLens(text, p, glossary)
         IN  IF lens # {}
             THEN Replacement(glossary, SubSeq(text, p, p + Largest(lens) - 1))
                      \o LongestFirstPass(text, p + Largest(lens), glossary)
             ELSE <<text[p]>> \o LongestFirstPass(text, p + 1, glossary)

----------------------------------------------------------------------------
(* The chunker: chunk_text *)

\* the paragraph separator '\n\n'
PARAGRAPH_SEP == <<"\n", "\n">>

RECURSIVE SplitFrom(_, _, _)
\* text.split('\n\n'), for the piece that starts at `start`, scanned up to i:
\* the separators are found left to right and do not overlap
SplitFrom(text, start, i) ==
    IF i > Len(text) THEN <<SubSeq(text, start, Len(text))>>
    ELSE IF i + 1 <= Len(text) /\ text[i] = "\n" /\ text[i + 1] = "\n"
    THEN <<SubSeq(text, start, i - 1)>> \o SplitFrom(text, i + 2, i + 2)
    ELSE SplitFrom(text, start, i + 1)

\* paragraphs = text.split('\n\n')
Paragraphs(text) == SplitFrom(text, 1, 1)

\* (variant) the separator is not counted: len(current) + len(p) <= max_chars
FitsWithoutSeparator(current, para, max_chars) ==
    Len(current) + Len(para) <= max_chars

\* len(current) + 2 + len(p) <= max_chars
Fits(current, para, max_chars) == Len(current) + 2 + Len(para) <= max_chars

\* (variant) the running chunk is appended whatever it holds
LastAppendedAlways(chunks, current) == Append(chunks, current)

\* if current: chunks.append(current)
LastAppended(chunks, current) ==
    IF current # <<>> THEN Append(chunks, current) ELSE chunks

RECURSIVE Pack(_, _, _, _, _)
\* the loop over the paragraphs from the i-th on, and the append behind it
Pack(paragraphs, i, chunks, current, max_chars) ==
    IF i > Len(paragraphs)
    THEN LastAppended(chunks, current)
    ELSE IF current = <<>>
    THEN Pack(paragraphs, i + 1, chunks, paragraphs[i], max_chars)
    ELSE IF Fits(current, paragraphs[i], max_chars)
    THEN Pack(paragraphs, i + 1, chunks,
              current \o PARAGRAPH_SEP \o paragraphs[i], max_chars)
    ELSE Pack(paragraphs, i + 1, Append(chunks, current), paragraphs[i], max_chars)

\* chunks, as the paragraph loop leaves it
PackedChunks(text, max_chars) == Pack(Paragraphs(text), 1, <<>>, <<>>, max_chars)

RECURSIVE Slices(_, _, _)
\* [c[i:i+max_chars] for i in range(0, len(c), max_chars)], from offset i on
Slices(c, i, max_chars) ==
    IF i >= Len(c) THEN <<>>
    ELSE <<SubSeq(c, i + 1, IF i + max_chars <= Len(c) THEN i + max_chars ELSE Len(c))>>
             \o Slices(c, i + max_chars, max_chars)

\* (variant) the chunks are returned as packed
HardSplitSkipped(chunks, max_chars) == chunks

RECURSIVE HardSplit(_, _)
\* final: a chunk within max_chars is kept, a longer one is cut into slices
HardSplit(chunks, max_chars) ==
    IF chunks = <<>> THEN <<>>
    ELSE (IF Len(Head(chunks)) <= max_chars
          THEN <<Head(chunks)>>
          ELSE Slices(Head(chunks), 0, max_chars))
             \o HardSplit(Tail(chunks), max_chars)

\* chunk_text(text, max_chars), for max_chars >= 1
chunk_text(text, max_chars) == HardSplit(PackedChunks(text, max_chars), max_chars)

----------------------------------------------------------------------------
(* The calls of chunk_text: inputs and specification *)

\* the longest text handed to chunk_text
MaxChunkTextLen == 5
\* the largest max_chars
MaxMaxChars == 4

ChunkAlphabet == {"a", "b", "\n"}
ChunkTexts == Strings(ChunkAlphabet, MaxChunkTextLen)
ChunkCalls == [op : {"chunk_text"}, text : ChunkTexts, max_chars : 1..MaxMaxChars]

\* a call chunk_text(text, max_chars) is about to be made
InitChunk ==
    /\ openai_client = FALSE
    /\ call \in ChunkCalls
    /\ env = Idle
    /\ ret = Idle
    /\ chat_history = <<>>

\* chunk_text(text, max_chars) returns; `packed` is its local list chunks
ChunkTextCall ==
    /\ call.op = "chunk_text"
    /\ ret = Idle
    /\ ret' = [packed |-> PackedChunks(call.text, call.max_chars),
               final |-> chunk_text(call.text, call.max_chars)]
    /\ UNCHANGED <<openai_client, call, env, chat_history>>

NextChunk == ChunkTextCall

SpecChunk == InitChunk /\ [][NextChunk]_vars

----------------------------------------------------------------------------
(* Properties of chunk_text *)

ChunkDone == call.op = "chunk_text" /\ ret # Idle

\* C12: no returned chunk is longer than max_chars.
C12_ChunkSizeBound ==
    ChunkDone => \A k \in 1..Len(ret.final) : Len(ret.final[k]) <= call.max_chars

C12_Witness ==
    /\ ChunkDone
    /\ call.text = <<"a", "b", "a", "b", "a">>
    /\ call.max_chars = 2
    /\ ret.final = << <<"a", "b">>, <<"a", "b">>, <<"a">> >>

RECURSIVE JoinWith(_, _)
\* sep.join(seqs)
JoinWith(seqs, sep) ==
    IF seqs = <<>> THEN <<>>
    ELSE IF Len(seqs) = 1 THEN seqs[1]
    ELSE seqs[1] \o sep \o JoinWith(Tail(seqs), sep)

\* the returned chunks are, in order, the packed chunks, each either as it is
\* or cut into consecutive non-empty slices whose concatenation it is
RECURSIVE SlicesOf(_, _)
SlicesOf(final, packed) ==
    IF packed = <<>> THEN final = <<>>
    ELSE \E n \in 1..Len(final) :
            /\ JoinWith(SubSeq(final, 1, n), <<>>) = Head(packed)
            /\ \A k \in 1..n : final[k] # <<>>
            /\ SlicesOf(SubSeq(final, n + 1, Len(final)), Tail(packed))

\* C13: the returned chunks, with nothing put between the slices of one
\* packed chunk and '\n\n' put between packed chunks, give back the text.
C13_RoundTrip ==
    ChunkDone =>
        /\ SlicesOf(ret.final, ret.packed)
        /\ JoinWith(ret.packed, PARAGRAPH_SEP) = call.text

----------------------------------------------------------------------------
(* Long texts: translate_long_text *)

\* the max_chars of chunk_text(text) in translate_long_text: the default of
\* the parameter (3000 in the source), scaled down so that the texts of the
\* model make several chunks
DefaultMaxChars == 2

\* apply_glossary(c, glossary) if glossary else c
PreProcessed(c, glossary) ==
    IF GlossaryFalsy(glossary) THEN c ELSE apply_glossary(c, glossary)

\* one entry of the log of the calls of translate made by a caller: the
\* arguments and the outcome
TranslateLogged(text, target_lang, source_lang, r) ==
    [text |-> text, target_lang |-> target_lang, source_lang |-> source_lang,
     raised |-> r.raised, translated |-> r.translated, detected |-> r.detected]

\* (variant) a chunk without translation does not end the loop
ChunkFailedIgnored(out) == FALSE

\* if out is None
ChunkFailed(out) == out = NONE

\* (variant) the language reported is the one of the last chunk's call
ReturnedDetectedOfChunk(detected, detected_used) == detected_used

\* the language translate_long_text returns behind the joined translations
ReturnedDetected(detected, detected_used) == detected

RECURSIVE TranslateChunks(_, _, _, _, _, _, _)
\* the loop over the chunks from the i-th on and the return behind it; a holds
\* the arguments of the call, es[i] the answers of the services to the i-th
\* call of translate, log the calls of translate made so far
TranslateChunks(chunks, i, translated_chunks, log, a, es, detected) ==
    IF i > Len(chunks)
    THEN [raised |-> FALSE,
          translated |-> JoinWith(translated_chunks, PARAGRAPH_SEP),
          detected |-> ReturnedDetected(detected,
                          IF log = <<>> THEN NONE ELSE log[Len(log)].detected),
          calls |-> log]
    ELSE LET c_pre == PreProcessed(chunks[i], a.glossary)
             r     == translate(c_pre, a.target_lang, a.source_lang, a.client, es[i])
             log2  == Append(log, TranslateLogged(c_pre, a.target_lang, a.source_lang, r))
         IN  IF r.raised
             THEN [raised |-> TRUE, translated |-> NONE, detected |-> NONE,
                   calls |-> log2]
             ELSE IF ChunkFailed(r.translated)
             THEN [raised |-> FALSE, translated |-> NONE,
                   detected |-> r.detected, calls |-> log2]
             ELSE TranslateChunks(chunks, i + 1,
                                  Append(translated_chunks, r.translated),
                                  log2, a, es, detected)

\* translate_long_text: e.detect holds the answers of the detectors to the
\* whole text, e.chunks[i] the answers of the services to the i-th chunk.
\* The result is [raised, translated, detected, calls].
translate_long_text(text, target_lang, source_lang, glossary, client, e) ==
    LET d == IF SourceGiven(source_lang)
             THEN [val |-> source_lang, raised |-> FALSE]
             ELSE detect_language(text, client, e.detect)
        a == [target_lang |-> target_lang, source_lang |-> source_lang,
              glossary |-> glossary, client |-> client]
    IN  IF d.raised
        THEN [raised |-> TRUE, translated |-> NONE, detected |-> NONE,
              calls |-> <<>>]
        ELSE TranslateChunks(chunk_text(text, DefaultMaxChars), 1, <<>>, <<>>,
                             a, e.chunks,
                             IF Truthy(d.val) THEN d.val ELSE UND)

----------------------------------------------------------------------------
(* The calls of translate_long_text: inputs, answers, specification *)

\* no chunk, one chunk, two paragraphs, one paragraph cut in two, three
\* paragraphs
LongTexts ==
    {<<>>, <<"a">>, <<"a", "a", "\n", "\n", "b">>, <<"a", "a", "b">>,
     <<"a", "\n", "\n", "b", "\n", "\n", "a">>}

LongSourceLangs == {NONE, AUTO, <<"d", "e">>}

\* absent, and {"a": "b"}
LongGlossaries == {NO_GLOSSARY, << <<(<<"a">>), (<<"b">>)>> >>}

LongCalls ==
    [op : {"translate_long_text"}, text : LongTexts, target_lang : TargetLangs,
     source_lang : LongSourceLangs, glossary : LongGlossaries]

\* the answers of the detectors to the whole text
WholeTextEnvs ==
    [llm_detect : {NONE, <<" ", "E", "S">>},
     stat_detect : {<<"e", "n">>, LANG_DETECT_EXCEPTION, RAISE}]

\* the answers of the services to the call of translate for one chunk
ChunkEnvs ==
    [llm_detect : {NONE}, stat_detect : {<<"e", "n">>, <<"e", "s">>, RAISE},
     openai : {NONE, <<"x">>}, google : {NONE, <<" ", "b">>}]

\* a call is about to be made, with the answers the services will give
InitLongText ==
    /\ openai_client \in BOOLEAN
    /\ call \in LongCalls
    /\ env \in [detect : WholeTextEnvs,
                chunks : [1..Len(chunk_text(call.text, DefaultMaxChars)) -> ChunkEnvs]]
    /\ ret = Idle
    /\ chat_history = <<>>

\* the call translate_long_text(text, target_lang, source_lang, glossary)
\* runs to its end
TranslateLongTextCall ==
    /\ call.op = "translate_long_text"
    /\ ret = Idle
    /\ ret' = translate_long_text(call.text, call.target_lang, call.source_lang,
                                  call.glossary, openai_client, env)
    /\ UNCHANGED <<openai_client, call, env, chat_history>>

NextLongText == TranslateLongTextCall

SpecLongText == InitLongText /\ [][NextLongText]_vars

----------------------------------------------------------------------------
(* Properties of translate_long_text *)

LongTextDone == call.op = "translate_long_text" /\ ret # Idle

\* the chunks of the text of the call, as they are handed to translate
LongChunks ==
    LET chunks == chunk_text(call.text, DefaultMaxChars)
    IN  [k \in 1..Len(chunks) |-> PreProcessed(chunks[k], call.glossary)]

\* C14: the chunks are handed to translate in order; the first call of
\* translate that returns None is the last call made, and the result is then
\* (None, the detected language of that call).
C14_FailFast ==
    LongTextDone =>
        /\ Len(ret.calls) <= Len(LongChunks)
        /\ \A k \in 1..Len(ret.calls) :
              /\ ret.calls[k].text = LongChunks[k]
              /\ (~ret.calls[k].raised /\ ret.calls[k].translated = NONE) =>
                    /\ k = Len(ret.calls)
                    /\ ~ret.raised
                    /\ ret.translated = NONE
                    /\ ret.detected = ret.calls[k].detected

C14_Witness ==
    /\ LongTextDone
    /\ Len(LongChunks) = 3
    /\ Len(ret.calls) = 2
    /\ ret.calls[1].translated = <<"x">>
    /\ ret.calls[2].translated = NONE
    /\ ret.calls[2].detected = <<"e", "s">>
    /\ env.detect.stat_detect = <<"e", "n">>
    /\ ret.translated = NONE
    /\ ret.detected = <<"e", "s">>

\* every chunk was handed to translate and got a translation
AllChunksTranslated ==
    /\ ~ret.raised
    /\ Len(ret.calls) = Len(LongChunks)
    /\ \A k \in 1..Len(ret.calls) : ret.calls[k].translated # NONE

\* the language resolved from the whole text before chunking
ExpectedLongDetected ==
    IF SourceIsGiven THEN call.source_lang
    ELSE LET d == detect_language(call.text, openai_client, env.detect)
         IN  IF d.val \in {NONE, <<>>} THEN UND ELSE d.val

\* C15: when every chunk is translated the result is the translations joined
\* by '\n\n' in the order of the chunks, with the language resolved once from
\* the whole text, whatever the calls for the chunks detected; every call of
\* translate gets the caller's source_lang.
C15_JoinedInOrder ==
    LongTextDone =>
        /\ \A k \in 1..Len(ret.calls) : ret.calls[k].source_lang = call.source_lang
        /\ AllChunksTranslated =>
              /\ ret.translated =
                    JoinWith([k \in 1..Len(ret.calls) |-> ret.calls[k].translated],
                             PARAGRAPH_SEP)
              /\ ret.detected = ExpectedLongDetected

C15_Witness ==
    /\ LongTextDone
    /\ AllChunksTranslated
    /\ call.source_lang = NONE
    /\ Len(ret.calls) = 3
    /\ ret.calls[1].translated = <<"x">>
    /\ ret.calls[2].translated = <<"b">>
    /\ ret.calls[3].translated = <<"x">>
    /\ ret.calls[3].detected = <<"e", "s">>
    /\ ret.translated = <<"x", "\n", "\n", "b", "\n", "\n", "x">>
    /\ ret.detected = <<"e", "n">>

----------------------------------------------------------------------------
(* The confidence scorer: translation_confidence *)

Smallest(S) == CHOOSE n \in S : \A m \in S : n <= m

\* a[i:i+k] == b[j:j+k]
BlockAt(a, b, i, j, k) == \A d \in 1..k : a[i + d] = b[j + d]

\* the sizes of the blocks that a[alo:ahi] and b[blo:bhi] have in common
BlockSizes(a, b, alo, ahi, blo, bhi) ==
    {k \in 1..(IF ahi - alo <= bhi - blo THEN ahi - alo ELSE bhi - blo) :
        \E i \in alo..(ahi - k), j \in blo..(bhi - k) : BlockAt(a, b, i, j, k)}

\* SequenceMatcher.find_longest_match without junk: a longest common block,
\* the one that starts earliest in a and, of those, earliest in b
find_longest_match(a, b, alo, ahi, blo, bhi) ==
    LET sizes == BlockSizes(a, b, alo, ahi, blo, bhi)
        k == IF sizes = {} THEN 0 ELSE Largest(sizes)
        i == Smallest({x \in alo..(ahi - k) :
                          \E y \in blo..(bhi - k) : BlockAt(a, b, x, y, k)})
        j == Smallest({y \in blo..(bhi - k) : BlockAt(a, b, i, y, k)})
    IN  IF k = 0 THEN <<alo, blo, 0>> ELSE <<i, j, k>>

RECURSIVE MatchedChars(_, _, _, _, _, _)
\* the total size of SequenceMatcher.get_matching_blocks: the longest block,
\* then the same to the left and to the right of it
MatchedChars(a, b, alo, ahi, blo, bhi) ==
    LET m == find_longest_match(a, b, alo, ahi, blo, bhi)
        i == m[1]
        j == m[2]
        k == m[3]
    IN  IF k = 0 THEN 0
        ELSE k + (IF alo < i /\ blo < j
                  THEN MatchedChars(a, b, alo, i, blo, j) ELSE 0)
               + (IF i + k < ahi /\ j + k < bhi
                  THEN MatchedChars(a, b, i + k, ahi, j + k, bhi) ELSE 0)

RECURSIVE GCD(_, _)
GCD(m, n) == IF n = 0 THEN m ELSE GCD(n, m % n)

\* a float that is the quotient of two naturals, as <<numerator, denominator>>
\* in lowest terms
Quotient(m, n) == <<m \div GCD(m, n), n \div GCD(m, n)>>

\* 0.0 and 1.0
ZERO == Quotient(0, 1)
ONE == Quotient(1, 1)

\* SequenceMatcher(None, a, b).ratio(): 2.0 * matches / (len(a) + len(b)),
\* and 1.0 for two empty sequences
ratio(a, b) ==
    IF Len(a) + Len(b) = 0 THEN ONE
    ELSE Quotient(2 * MatchedChars(a, b, 0, Len(a), 0, Len(b)), Len(a) + Len(b))

\* if back_translated:
BackSupplied(back_translated) == Truthy(back_translated)

\* (variant) the error is not caught
ConfidenceCaughtNever(outcome) == FALSE

\* except Exception: every error of the computation is caught
ConfidenceCaught(outcome) == TRUE

\* translation_confidence: the result is [raised, val]. The computation fails
\* (TypeError) when a sequence it measures is None.
translation_confidence(original, translated, back_translated) ==
    LET cmp == IF BackSupplied(back_translated) THEN back_translated ELSE translated
    IN  IF original = NONE \/ cmp = NONE
        THEN IF ConfidenceCaught(RAISE)
             THEN [raised |-> FALSE, val |-> ZERO]
             ELSE [raised |-> TRUE, val |-> NONE]
        ELSE [raised |-> FALSE, val |-> ratio(original, cmp)]

----------------------------------------------------------------------------
(* The calls of translation_confidence: inputs and specification *)

\* the longest string handed to translation_confidence
MaxConfLen == 3

ConfStrings == Strings({"a", "b"}, MaxConfLen) \cup {NONE}

ConfidenceCalls ==
    [op : {"translation_confidence"}, original : ConfStrings,
     translated : ConfStrings, back_translated : ConfStrings]

\* a call translation_confidence(original, translated, back_translated) is
\* about to be made
InitConfidence ==
    /\ openai_client = FALSE
    /\ call \in ConfidenceCalls
    /\ env = Idle
    /\ ret = Idle
    /\ chat_history = <<>>

\* the call runs to its end
TranslationConfidenceCall ==
    /\ call.op = "translation_confidence"
    /\ ret = Idle
    /\ ret' = translation_confidence(call.original, call.translated,
                                     call.back_translated)
    /\ UNCHANGED <<openai_client, call, env, chat_history>>

NextConfidence == TranslationConfidenceCall

SpecConfidence == InitConfidence /\ [][NextConfidence]_vars

----------------------------------------------------------------------------
(* Properties of translation_confidence *)

ConfidenceDone == call.op = "translation_confidence" /\ ret # Idle

\* C18: translation_confidence does not raise, its value lies in [0, 1] and is
\* 0.0 where the computation fails; translation_confidence(s, s) is 1.0.
C18_ConfidenceBounds ==
    ConfidenceDone =>
        /\ ~ret.raised
        /\ 0 <= ret.val[1] /\ ret.val[1] <= ret.val[2]
        /\ (call.original = NONE \/ (call.translated = NONE /\ call.back_translated = NONE))
              => ret.val = ZERO
        /\ (call.original # NONE /\ call.translated = call.original
                /\ call.back_translated = NONE)
              => ret.val = ONE

C18_Witness ==
    /\ ConfidenceDone
    /\ call.original = <<"a", "b", "a">>
    /\ call.translated = <<"a", "b", "a">>
    /\ call.back_translated = NONE
    /\ ret.val = ONE

\* C19 as claimed: with a back-translation that is not None, the empty string
\* included, the score is the similarity of original and back_translated;
\* without one it is the similarity of original and translated.
C19_BackTranslationPreferred ==
    (ConfidenceDone /\ call.original # NONE /\ call.translated # NONE) =>
        /\ call.back_translated # NONE =>
              ret.val = ratio(call.original, call.back_translated)
        /\ call.back_translated = NONE =>
              ret.val = ratio(call.original, call.translated)

----------------------------------------------------------------------------
(* Batches: generate_pronunciation and batch_translate *)

\* generate_pronunciation: `content` is what the chat completion answers
generate_pronunciation(text, target_lang, client, content) ==
    IF ~client THEN NONE
    ELSE IF content = RAISE THEN NONE
    ELSE IF Truthy(content) THEN Strip(content) ELSE NONE

\* the language the back-translation translates into
BackTarget(source_lang, detected) ==
    IF SourceGiven(source_lang) THEN source_lang ELSE detected

\* the try/except around the back-translation: the result of the call, and
\* None when it raises
BackTranslation(b) == IF b.raised THEN NONE ELSE b.translated

\* (variant) without a back-translation the confidence stays 0.0
ItemConfidenceOnlyWithBack(t, translated, back) ==
    IF back = NONE THEN ZERO ELSE translation_confidence(t, translated, back).val

\* conf = translation_confidence(t, translated, back)
ItemConfidence(t, translated, back) == translation_confidence(t, translated, back).val

\* one round of the loop of batch_translate, for the text t and the answers
\* ei of the services to the calls of that round (ei.fwd to the translation,
\* ei.back to the back-translation, ei.pron to the pronunciation request).
\* The result is [raised, item, fwd, back_called, back], where fwd and back
\* are the outcomes of the two calls of translate.
BatchItem(t, target_lang, source_lang, glossary, do_pronunciation, client, ei) ==
    LET t_pre == PreProcessed(t, glossary)
        f     == translate(t_pre, target_lang, source_lang, client, ei.fwd)
        b     == translate(f.translated, BackTarget(source_lang, f.detected),
                           target_lang, client, ei.back)
        back  == IF Truthy(f.translated) THEN BackTranslation(b) ELSE NONE
        conf  == IF Truthy(f.translated)
                 THEN ItemConfidence(t, f.translated, back) ELSE ZERO
        pron  == IF Truthy(f.translated) /\ do_pronunciation
                 THEN generate_pronunciation(f.translated, target_lang, client, ei.pron)
                 ELSE NONE
    IN  [raised |-> f.raised,
         item |-> [original |-> t, detected |-> f.detected,
                   translated |-> f.translated, back_translation |-> back,
                   confidence |-> conf, pronunciation |-> pron],
         fwd |-> f,
         back_called |-> ~f.raised /\ Truthy(f.translated),
         back |-> b]

RECURSIVE BatchFrom(_, _, _, _, _, _)
\* the loop of batch_translate from the i-th text on and the return behind
\* it; a holds the other arguments of the call
BatchFrom(texts, i, results, log, a, e) ==
    IF i > Len(texts)
    THEN [raised |-> FALSE, results |-> results, log |-> log]
    ELSE LET r == BatchItem(texts[i], a.target_lang, a.source_lang, a.glossary,
                            a.do_pronunciation, a.client, e.items[i])
         IN  IF r.raised
             THEN [raised |-> TRUE, results |-> <<>>, log |-> Append(log, r)]
             ELSE BatchFrom(texts, i + 1, Append(results, r.item),
                            Append(log, r), a, e)

\* batch_translate: the result is [raised, results, log]; when the call
\* raises there is no returned list
batch_translate(texts, target_lang, source_lang, glossary, do_pronunciation, client, e) ==
    BatchFrom(texts, 1, <<>>, <<>>,
              [target_lang |-> target_lang, source_lang |-> source_lang,
               glossary |-> glossary, do_pronunciation |-> do_pronunciation,
               client |-> client], e)

----------------------------------------------------------------------------
(* The calls of batch_translate: inputs, answers, specification *)

BatchTexts ==
    {<<>>, << <<"a", " ", "b">> >>, << <<"a", " ", "b">>, <<"x">> >>}

\* 'auto' as target makes the back-translation detect its source language
BatchTargetLangs == {<<"e", "s">>, AUTO}
BatchSourceLangs == {NONE, <<"d", "e">>}

BatchCalls ==
    [op : {"batch_translate"}, texts : BatchTexts, target_lang : BatchTargetLangs,
     source_lang : BatchSourceLangs, glossary : LongGlossaries,
     do_pronunciation : BOOLEAN]

\* the answers of the services to the calls made for one text
BatchItemEnvs ==
    [fwd : [llm_detect : {NONE}, stat_detect : {<<"e", "n">>, RAISE},
            openai : {NONE, <<"a">>}, google : {NONE}],
     back : [llm_detect : {NONE}, stat_detect : {<<"e", "n">>, RAISE},
             openai : {NONE, <<"a", " ", "b">>}, google : {NONE}],
     pron : {RAISE, <<" ", "a">>}]

\* a call is about to be made, with the answers the services will give
InitBatch ==
    /\ openai_client \in BOOLEAN
    /\ call \in BatchCalls
    /\ env \in [items : [1..Len(call.texts) -> BatchItemEnvs]]
    /\ ret = Idle
    /\ chat_history = <<>>

\* the call batch_translate(texts, target_lang, source_lang, glossary,
\* do_pronunciation) runs to its end
BatchTranslateCall ==
    /\ call.op = "batch_translate"
    /\ ret = Idle
    /\ ret' = batch_translate(call.texts, call.target_lang, call.source_lang,
                              call.glossary, call.do_pronunciation,
                              openai_client, env)
    /\ UNCHANGED <<openai_client, call, env, chat_history>>

NextBatch == BatchTranslateCall

SpecBatch == InitBatch /\ [][NextBatch]_vars

----------------------------------------------------------------------------
(* Properties of batch_translate *)

BatchDone == call.op = "batch_translate" /\ ret # Idle

BatchReturned == BatchDone /\ ~ret.raised

\* the item the i-th text gives in a batch of its own
ItemAlone(i) ==
    BatchItem(call.texts[i], call.target_lang, call.source_lang, call.glossary,
              call.do_pronunciation, openai_client, env.items[i]).item

\* the item's translation failed
ItemFailed(item) == item.translated = NONE

\* C16: the call returns one item per text, in the order of the texts and
\* with original the text; an item whose translation failed has no
\* translation, no back-translation, confidence 0.0 and no pronunciation; no
\* item depends on the other texts or ends the batch.
C16_BatchIsolation ==
    BatchDone =>
        /\ ~ret.raised
        /\ Len(ret.results) = Len(call.texts)
        /\ \A i \in 1..Len(ret.results) :
              /\ ret.results[i].original = call.texts[i]
              /\ ret.results[i] = ItemAlone(i)
              /\ ItemFailed(ret.results[i]) =>
                    /\ ret.results[i].back_translation = NONE
                    /\ ret.results[i].confidence = ZERO
                    /\ ret.results[i].pronunciation = NONE

\* the same for the calls that return
C16_IsolationOfReturnedBatches ==
    BatchReturned =>
        /\ Len(ret.results) = Len(call.texts)
        /\ \A i \in 1..Len(ret.results) :
              /\ ret.results[i].original = call.texts[i]
              /\ ret.results[i] = ItemAlone(i)
              /\ ItemFailed(ret.results[i]) =>
                    /\ ret.results[i].back_translation = NONE
                    /\ ret.results[i].confidence = ZERO
                    /\ ret.results[i].pronunciation = NONE

\* the i-th text got a non-empty translation and its back-translation
\* returned None or raised
BackFailed(i) ==
    /\ ret.log[i].back_called
    /\ ret.log[i].back.raised \/ ret.log[i].back.translated = NONE

\* C17 as claimed: an item whose translation succeeded and whose
\* back-translation failed carries the translation, no back-translation and
\* confidence 0.0.
C17_ZeroConfidenceWithoutBack ==
    BatchReturned =>
        \A i \in 1..Len(ret.results) :
            BackFailed(i) =>
                /\ ret.results[i].translated = ret.log[i].fwd.translated
                /\ ret.results[i].back_translation = NONE
                /\ ret.results[i].confidence = ZERO

\* C17: an item whose translation succeeded and whose back-translation failed
\* carries the translation, no back-translation and, as confidence, the
\* similarity of the original text and the translation.
C17_ForwardConfidenceWithoutBack ==
    BatchReturned =>
        \A i \in 1..Len(ret.results) :
            BackFailed(i) =>
                /\ ret.results[i].translated = ret.log[i].fwd.translated
                /\ ret.results[i].back_translation = NONE
                /\ ret.results[i].confidence =
                      ratio(call.texts[i], ret.results[i].translated)

C17_Witness ==
    /\ BatchReturned
    /\ Len(ret.results) = 2
    /\ BackFailed(1)
    /\ ret.log[1].back.raised
    /\ ret.results[1].original = <<"a", " ", "b">>
    /\ ret.results[1].translated = <<"a">>
    /\ ret.results[1].back_translation = NONE
    /\ ret.results[1].confidence = Quotient(1, 2)
    /\ BackFailed(2)
    /\ ~ret.log[2].back.raised

----------------------------------------------------------------------------
(* The calls of detect_language: inputs, answers, specification *)

\* six whitespace-separated tokens: the longest text of the short-text path
SixTokenText == <<"a", " ", "a", "\n", "a", " ", "a", "\t", "a", " ", "a">>

DetectTexts == {<<>>, ShortText, SixTokenText, LongText}

DetectCalls == [op : {"detect_language"}, text : DetectTexts]

DetectEnvs ==
    [llm_detect : LLMDetectAnswers \cup {<<>>, <<"e", "s">>},
     stat_detect : StatDetectOutcomes]

\* a call detect_language(text) is about to be made, with the answers the
\* detectors will give
InitDetect ==
    /\ openai_client \in BOOLEAN
    /\ call \in DetectCalls
    /\ env \in DetectEnvs
    /\ ret = Idle
    /\ chat_history = <<>>

\* the call detect_language(text) runs to its end
DetectLanguageCall ==
    /\ call.op = "detect_language"
    /\ ret = Idle
    /\ ret' = detect_language(call.text, openai_client, env)
    /\ UNCHANGED <<openai_client, call, env, chat_history>>

NextDetect == DetectLanguageCall

SpecDetect == InitDetect /\ [][NextDetect]_vars

----------------------------------------------------------------------------
(* Properties of detect_language *)

DetectDone == call.op = "detect_language" /\ ret # Idle

\* the services called, in the order of the calls
ServicesCalled == [k \in 1..Len(ret.calls) |-> ret.calls[k].fn]

\* the LLM detector is configured and the text has at most six tokens
ShortAndConfigured == openai_client /\ WordCount(call.text) <= 6

\* the LLM detector fails or its answer holds no code
LLMDetectorEmpty ==
    \/ env.llm_detect \in {NONE, RAISE}
    \/ \A k \in 1..Len(env.llm_detect) : IsSpace(env.llm_detect[k])

\* the code the statistical detector gives, None when it cannot classify
StatisticalResult ==
    IF env.stat_detect = LANG_DETECT_EXCEPTION THEN NONE ELSE env.stat_detect

\* C20: with an LLM detector configured and a text of at most six tokens the
\* LLM detector is asked first and its non-empty answer is the result, the
\* statistical detector not being run; when it fails or answers nothing the
\* statistical detector is run after it; for a longer text or without an LLM
\* detector only the statistical detector is run; its code, or None when it
\* cannot classify, is then the result.
C20_ShortTextFastPath ==
    DetectDone =>
        /\ (ShortAndConfigured /\ ~LLMDetectorEmpty) =>
              /\ ~ret.raised
              /\ ret.val = Lower(Strip(env.llm_detect))
              /\ ret.val # <<>>
              /\ ServicesCalled = <<"detect_via_openai">>
        /\ (ShortAndConfigured /\ LLMDetectorEmpty) =>
              /\ ServicesCalled = <<"detect_via_openai", "detect">>
              /\ ~ret.raised => ret.val = StatisticalResult
        /\ ~ShortAndConfigured =>
              /\ ServicesCalled = <<"detect">>
              /\ ~ret.raised => ret.val = StatisticalResult

C20_Witness ==
    /\ DetectDone
    /\ openai_client
    /\ call.text = SixTokenText
    /\ env.llm_detect = <<" ", "E", "S">>
    /\ ret.val = <<"e", "s">>
    /\ ServicesCalled = <<"detect_via_openai">>

----------------------------------------------------------------------------
(* The two-stage flow of the app: two_stage_translate_and_process *)

ZH == <<"z", "h">>
ZH_CN == <<"z", "h", "-", "c", "n">>
ZH_TW == <<"z", "h", "-", "t", "w">>

\* LANG_CODE_MAP.get(code, code): the two Chinese codes map to 'zh', every
\* other code of the map to itself
LangCode(code) == IF code \in {ZH_CN, ZH_TW} THEN ZH ELSE code

\* '\n---CULTURAL_NOTES---\n'
DELIMITER ==
    <<"\n", "-", "-", "-", "C", "U", "L", "T", "U", "R", "A", "L", "_",
      "N", "O", "T", "E", "S", "-", "-", "-", "\n">>

\* an answer of the chat completion without choices
NO_CHOICES == <<"<no choices>">>

\* the key 'reverse_translation' is not in the entry
ABSENT == <<"<absent>">>

\* the offsets at which sub occurs in text
Occurrences(text, sub) ==
    {i \in 0..(Len(text) - Len(sub)) : SubSeq(text, i + 1, i + Len(sub)) = sub}

\* sub in text
Contains(text, sub) == Occurrences(text, sub) # {}

\* text.split(sub, 1) where sub occurs: the parts around the first occurrence
SplitOnce(text, sub) ==
    LET i == Smallest(Occurrences(text, sub))
    IN  <<SubSeq(text, 1, i), SubSeq(text, i + Len(sub) + 1, Len(text))>>

\* (content or '').strip()
ContentText(content) == IF Truthy(content) THEN Strip(content) ELSE <<>>

\* None if (source_lang == 'auto' or source_lang is None) else
\* LANG_CODE_MAP.get(source_lang, source_lang)
SrcIso(source_lang) ==
    IF source_lang = AUTO \/ source_lang = NONE THEN NONE ELSE LangCode(source_lang)

\* the entry of the history: assistant and cultural_notes are the reply
\* split at the delimiter when the stripped reply holds it
HistoryEntry(user_text, f, content, reverse) ==
    LET assistant_text == ContentText(content)
        split == Contains(assistant_text, DELIMITER)
        parts == SplitOnce(assistant_text, DELIMITER)
    IN  [user |-> user_text, source |-> f.detected, translated |-> f.translated,
         assistant |-> IF split THEN Strip(parts[1]) ELSE assistant_text,
         cultural_notes |-> IF split THEN Strip(parts[2]) ELSE NONE,
         reverse_translation |-> reverse]

\* the reverse translation of the entry: the try/except around translate
ReverseTranslation(do_reverse, b) ==
    IF ~do_reverse THEN ABSENT ELSE IF b.raised THEN NONE ELSE b.translated

\* the dict a call returns, and the empty one of a call that returns None
NoResult == [detected |-> NONE, translated |-> NONE, result |-> NONE]

\* (variant) the history is replaced by the new entry
HistoryReplaced(history, entry) == <<entry>>

\* history.append(entry)
HistoryAppended(history, entry) == Append(history, entry)

\* two_stage_translate_and_process(task_prompt_template, user_text,
\* target_lang, source_lang, do_reverse) with the history it finds: e.detect
\* are the answers of the detectors to the detection of stage 1, e.fwd the
\* answers of the services to the translation, e.reply what the chat
\* completion of the task answers (RAISE, NO_CHOICES, or the content of the
\* first choice), e.reverse the answers to the reverse translation.  The
\* language of stage 1 and its heuristic are read by nothing behind them; the
\* templates of the app hold the two fields that format fills in.
\* The result is [raised, returned, out, fwd, history]: returned is FALSE for a
\* call that returns None, history is the chat_history behind the call.
two_stage_translate_and_process(user_text, target_lang, source_lang, do_reverse, client, e, history) ==
    LET d == IF SourceGiven(source_lang)
             THEN [val |-> source_lang, raised |-> FALSE]
             ELSE detect_language(user_text, client, e.detect)
        f == translate(user_text, LangCode(target_lang), SrcIso(source_lang),
                       client, e.fwd)
        b == translate(f.translated, LangCode(f.detected), LangCode(target_lang),
                       client, e.reverse)
        content == e.reply
        entry == HistoryEntry(user_text, f, content, ReverseTranslation(do_reverse, b))
        none == [raised |-> FALSE, returned |-> FALSE, out |-> NoResult,
                 fwd |-> f, history |-> history]
    IN  IF d.raised
        THEN [raised |-> TRUE, returned |-> FALSE, out |-> NoResult,
              fwd |-> f, history |-> history]
        ELSE IF f.raised THEN none
        ELSE IF ~Truthy(f.translated) THEN none
        ELSE IF content = RAISE THEN none
        ELSE IF content = NO_CHOICES THEN none
        ELSE [raised |-> FALSE, returned |-> TRUE,
              out |-> [detected |-> f.detected, translated |-> f.translated,
                       result |-> ContentText(content)],
              fwd |-> f, history |-> HistoryAppended(history, entry)]

----------------------------------------------------------------------------
(* One call of two_stage_translate_and_process: inputs, answers *)

AppSourceLangs == {NONE, AUTO, <<"d", "e">>, ZH_CN}

AppCalls ==
    [op : {"two_stage_translate_and_process"}, user_text : {ShortText},
     target_lang : TargetLangs, source_lang : AppSourceLangs,
     do_reverse : BOOLEAN]

\* the replies of the task's chat completion: an error, no choices, no
\* content, and contents without and with the delimiter
AppReplies ==
    {RAISE, NO_CHOICES, NONE, <<"m">>,
     <<"m">> \o DELIMITER \o <<"n">>,
     <<" ", "m", " ">> \o DELIMITER \o <<" ", "n", "\n">>,
     <<"m">> \o DELIMITER \o <<"n">> \o DELIMITER \o <<"n">>,
     <<"m">> \o DELIMITER,
     DELIMITER \o <<"n">>}

AppEnvs ==
    [detect : [llm_detect : {NONE}, stat_detect : {<<"e", "n">>, RAISE}],
     fwd : [llm_detect : {NONE}, stat_detect : {<<"e", "n">>, RAISE},
            openai : {NONE, <<"x">>, <<" ">>}, google : {NONE}],
     reply : AppReplies,
     reverse : [llm_detect : {NONE}, stat_detect : {<<"e", "n">>, RAISE},
                openai : {NONE, <<"b">>}, google : {NONE}]]

\* an entry an earlier call left in the history
EarlierEntry ==
    [user |-> <<"a">>, source |-> <<"e", "n">>, translated |-> <<"b">>,
     assistant |-> <<"m">>, cultural_notes |-> NONE,
     reverse_translation |-> ABSENT]

\* a call is about to be made in a session whose history is empty or holds
\* an entry
InitApp ==
    /\ openai_client \in BOOLEAN
    /\ call \in AppCalls
    /\ env \in AppEnvs
    /\ ret = Idle
    /\ chat_history \in {<<>>, <<EarlierEntry>>}

\* the call runs to its end; before is the history it found
TwoStageCall ==
    /\ call.op = "two_stage_translate_and_process"
    /\ ret = Idle
    /\ LET r == two_stage_translate_and_process(call.user_text, call.target_lang,
                    call.source_lang, call.do_reverse, openai_client, env,
                    chat_history)
       IN  /\ ret' = [raised |-> r.raised, returned |-> r.returned, out |-> r.out,
                      fwd |-> r.fwd, before |-> chat_history]
           /\ chat_history' = r.history
    /\ UNCHANGED <<openai_client, call, env>>

NextApp == TwoStageCall

SpecApp == InitApp /\ [][NextApp]_vars

----------------------------------------------------------------------------
(* Properties of two_stage_translate_and_process *)

AppDone == call.op = "two_stage_translate_and_process" /\ ret # Idle

\* the call returned a result
AppSucceeded == AppDone /\ ret.returned

\* the last entry of the history
LastEntry == chat_history[Len(chat_history)]

\* the reply has a content and the delimiter is in it
ReplyHasDelimiter ==
    /\ env.reply \notin {RAISE, NO_CHOICES, NONE}
    /\ Contains(env.reply, DELIMITER)

\* a successful call puts one entry behind the entries it found, made of the
\* text, of the language and the translation translate returned, and the
\* returned dict carries these two
OneEntryAppended ==
    /\ Len(chat_history) = Len(ret.before) + 1
    /\ SubSeq(chat_history, 1, Len(ret.before)) = ret.before
    /\ LastEntry.user = call.user_text
    /\ LastEntry.source = ret.fwd.detected
    /\ LastEntry.translated = ret.fwd.translated
    /\ ret.out.detected = LastEntry.source
    /\ ret.out.translated = LastEntry.translated

\* C21: a successful call appends one entry with the text, the detected
\* language and the translation, which the returned dict carries too; when
\* the reply holds the delimiter, assistant is the (trimmed) part before its
\* first occurrence and cultural_notes the (trimmed) part after it.
C21_EntryAppended ==
    AppSucceeded =>
        /\ OneEntryAppended
        /\ ReplyHasDelimiter =>
              /\ LastEntry.assistant = Strip(SplitOnce(env.reply, DELIMITER)[1])
              /\ LastEntry.cultural_notes = Strip(SplitOnce(env.reply, DELIMITER)[2])

\* the same where the delimiter is in the trimmed reply
C21_EntryAppendedInnerDelimiter ==
    AppSucceeded =>
        /\ OneEntryAppended
        /\ (ReplyHasDelimiter /\ Contains(Strip(env.reply), DELIMITER)) =>
              /\ LastEntry.assistant = Strip(SplitOnce(env.reply, DELIMITER)[1])
              /\ LastEntry.cultural_notes = Strip(SplitOnce(env.reply, DELIMITER)[2])

----------------------------------------------------------------------------
(* The per-match lookup of apply_glossary *)

\* key in glossary
HasKey(glossary, key) == \E i \in 1..Len(glossary) : glossary[i][1] = key

\* the text is one whole-word occurrence of a term, in any letter case
WholeTextMatches ==
    /\ call.text # <<>>
    /\ Delimited(call.text, 1, Len(call.text))
    /\ \E i \in 1..Len(call.glossary) : EqualCI(call.text, call.glossary[i][1])

\* the value under the lower-cased key if that key is present, else the value
\* under the key as written if that is present, else the word
LookupByPresence(glossary, word) ==
    IF HasKey(glossary, Lower(word)) THEN Get(glossary, Lower(word))
    ELSE IF HasKey(glossary, word) THEN Get(glossary, word)
    ELSE word

\* C22: a matched occurrence is replaced by the value stored under its
\* lower-cased text if that key is in the glossary, whatever the value, else
\* by the value under its text as written if that key is in the glossary, and
\* is left as it is otherwise.
C22_LookupOrder ==
    (GlossaryDone /\ HasEntries(call.glossary) /\ WholeTextMatches) =>
        ret.outs[1] = LookupByPresence(call.glossary, call.text)

\* the same for glossaries without an empty replacement
C22_LookupOrderOfNonEmptyValues ==
    (/\ GlossaryDone /\ HasEntries(call.glossary) /\ WholeTextMatches
     /\ \A i \in 1..Len(call.glossary) : call.glossary[i][2] # <<>>) =>
        ret.outs[1] = LookupByPresence(call.glossary, call.text)

----------------------------------------------------------------------------
(* Packing and hard split of chunk_text *)

RECURSIVE GreedyFrom(_, _, _, _)
\* the paragraphs from the i-th on are joined to the running chunk while
\* they fit, and the chunk is closed when the next one does not
GreedyFrom(paragraphs, i, current, max_chars) ==
    IF i > Len(paragraphs) THEN <<current>>
    ELSE IF Len(current) + 2 + Len(paragraphs[i]) <= max_chars
    THEN GreedyFrom(paragraphs, i + 1,
                    current \o PARAGRAPH_SEP \o paragraphs[i], max_chars)
    ELSE <<current>> \o GreedyFrom(paragraphs, i + 1, paragraphs[i], max_chars)

\* the paragraphs of the text packed greedily, the first one opening the
\* first chunk; the empty text has nothing to pack
GreedyPacked(text, max_chars) ==
    IF text = <<>> THEN <<>>
    ELSE GreedyFrom(Paragraphs(text), 2, Paragraphs(text)[1], max_chars)

\* the number of slices of max_chars characters a chunk of n characters gives
SliceCount(n, max_chars) == (n + max_chars - 1) \div max_chars

\* a chunk within the limit as it is, a longer one as its slices of exactly
\* max_chars characters, the last one holding the rest
InPlace(c, max_chars) ==
    IF Len(c) <= max_chars THEN <<c>>
    ELSE [k \in 1..SliceCount(Len(c), max_chars) |->
            SubSeq(c, (k - 1) * max_chars + 1,
                   IF k * max_chars <= Len(c) THEN k * max_chars ELSE Len(c))]

RECURSIVE AllInPlace(_, _)
AllInPlace(chunks, max_chars) ==
    IF chunks = <<>> THEN <<>>
    ELSE InPlace(Head(chunks), max_chars) \o AllInPlace(Tail(chunks), max_chars)

\* C23: the packed chunks are the paragraphs of the text packed greedily, a
\* chunk being closed only when the next paragraph does not fit with its
\* separator; the result is the packed chunks in order, each one longer than
\* max_chars replaced in place by its slices of max_chars characters.
C23_GreedyPackingAndHardSplit ==
    ChunkDone =>
        /\ ret.packed = GreedyPacked(call.text, call.max_chars)
        /\ ret.final = AllInPlace(ret.packed, call.max_chars)

\* the same for the texts without an empty paragraph
C23_PackingOfNonEmptyParagraphs ==
    (ChunkDone /\ \A k \in 1..Len(Paragraphs(call.text)) :
                      Paragraphs(call.text)[k] # <<>>) =>
        /\ ret.packed = GreedyPacked(call.text, call.max_chars)
        /\ ret.final = AllInPlace(ret.packed, call.max_chars)

\* C24: no returned chunk is empty, and a text that is empty or made of
\* blank-line separators only gives the empty list.
C24_NoEmptyChunk ==
    ChunkDone =>
        /\ \A k \in 1..Len(ret.final) : ret.final[k] # <<>>
        /\ (\A k \in 1..Len(Paragraphs(call.text)) :
                Paragraphs(call.text)[k] = <<>>) => ret.final = <<>>

C24_Witness ==
    /\ ChunkDone
    /\ call.text = <<"\n", "\n", "\n", "\n">>
    /\ ret.final = <<>>

----------------------------------------------------------------------------
(* Whitespace-only answers of the primary backend: the three callers *)

\* answers of the primary backend, two of them whitespace only
BlankPrimaryAnswers == {NONE, <<" ">>, <<"\n", " ">>, <<"x">>}

\* the answers to one call of translate
BlankEnvs ==
    [llm_detect : {NONE}, stat_detect : {<<"e", "n">>, RAISE},
     openai : BlankPrimaryAnswers, google : {NONE, <<"b">>}]

BlankTranslateCalls ==
    [op : {"translate"}, text : {ShortText}, target_lang : TargetLangs,
     source_lang : {NONE, <<"d", "e">>}]

BlankBatchCalls ==
    [op : {"batch_translate"}, texts : BatchTexts, target_lang : TargetLangs,
     source_lang : {<<"d", "e">>}, glossary : {NO_GLOSSARY},
     do_pronunciation : BOOLEAN]

BlankBatchItemEnvs ==
    [fwd : BlankEnvs,
     back : [llm_detect : {NONE}, stat_detect : {<<"e", "n">>},
             openai : {NONE, <<"a">>}, google : {NONE}],
     pron : {<<" ", "a">>}]

BlankLongCalls ==
    [op : {"translate_long_text"}, text : LongTexts, target_lang : TargetLangs,
     source_lang : {<<"d", "e">>}, glossary : {NO_GLOSSARY}]

\* a call of translate, of batch_translate or of translate_long_text is about
\* to be made, with the answers the services will give
InitBlank ==
    /\ openai_client \in BOOLEAN
    /\ \/ /\ call \in BlankTranslateCalls
          /\ env \in BlankEnvs
       \/ /\ call \in BlankBatchCalls
          /\ env \in [items : [1..Len(call.texts) -> BlankBatchItemEnvs]]
       \/ /\ call \in BlankLongCalls
          /\ env \in [detect : WholeTextEnvs,
                      chunks : [1..Len(chunk_text(call.text, DefaultMaxChars)) -> BlankEnvs]]
    /\ ret = Idle
    /\ chat_history = <<>>

NextBlank == TranslateCall \/ BatchTranslateCall \/ TranslateLongTextCall

SpecBlank == InitBlank /\ [][NextBlank]_vars

\* a non-empty answer of whitespace only
IsBlank(answer) ==
    /\ answer \notin {NONE, RAISE, <<>>}
    /\ \A k \in 1..Len(answer) : IsSpace(answer[k])

\* C25: when the primary backend answers a non-empty string of whitespace
\* only, translate returns the empty string and does not try the secondary
\* backend; batch_translate gives the item no back-translation, confidence
\* 0.0 and no pronunciation; translate_long_text takes the empty string for
\* the chunk's translation and goes on with the next chunk.
C25_BlankPrimaryAnswer ==
    /\ (TranslateReturned /\ openai_client /\ IsBlank(env.openai)) =>
          /\ ret.translated = <<>>
          /\ ~Attempted("translate_via_google")
    /\ (BatchReturned /\ openai_client) =>
          \A i \in 1..Len(ret.results) :
              IsBlank(env.items[i].fwd.openai) =>
                  /\ ret.results[i].translated = <<>>
                  /\ ~ret.log[i].back_called
                  /\ ret.results[i].back_translation = NONE
                  /\ ret.results[i].confidence = ZERO
                  /\ ret.results[i].pronunciation = NONE
    /\ (LongTextDone /\ openai_client) =>
          \A k \in 1..Len(ret.calls) :
              (IsBlank(env.chunks[k].openai) /\ ~ret.calls[k].raised) =>
                  /\ ret.calls[k].translated = <<>>
                  /\ k < Len(LongChunks) => Len(ret.calls) > k
                  /\ k = Len(LongChunks) =>
                        ret.translated =
                            JoinWith([j \in 1..Len(ret.calls) |-> ret.calls[j].translated],
                                     PARAGRAPH_SEP)

C25_Witness ==
    /\ LongTextDone
    /\ openai_client
    /\ Len(ret.calls) = 2
    /\ IsBlank(env.chunks[1].openai)
    /\ env.chunks[1].google = <<"b">>
    /\ ret.calls[1].translated = <<>>
    /\ ret.calls[2].translated = <<"x">>
    /\ ret.translated = <<"\n", "\n", "x">>

----------------------------------------------------------------------------
(* A session of the app: calls one after the other, and Clear History *)

\* the most calls made in one session
MaxSessionCalls == 3

SessionCalls ==
    [op : {"two_stage_translate_and_process"}, user_text : {ShortText},
     target_lang : TargetLangs, source_lang : {AUTO, <<"d", "e">>},
     do_reverse : {FALSE}]

SessionEnvs ==
    [detect : [llm_detect : {NONE}, stat_detect : {<<"e", "n">>, RAISE}],
     fwd : [llm_detect : {NONE}, stat_detect : {<<"e", "n">>, RAISE},
            openai : {NONE, <<"x">>}, google : {NONE}],
     reply : {RAISE, NO_CHOICES, <<"m">>},
     reverse : [llm_detect : {NONE}, stat_detect : {<<"e", "n">>},
                openai : {NONE}, google : {NONE}]]

\* the session starts: chat_history is initialised to the empty list; calls
\* counts the calls made, results those that returned a result since the
\* history was last empty by initialisation or Clear History
InitSession ==
    /\ openai_client \in BOOLEAN
    /\ call = Idle
    /\ env = Idle
    /\ ret = [op |-> "started", raised |-> FALSE, returned |-> FALSE,
              before |-> <<>>, calls |-> 0, results |-> 0]
    /\ chat_history = <<>>

\* the Process button: a call of two_stage_translate_and_process with the
\* inputs and the answers of the moment runs to its end
SessionCall ==
    /\ ret.op \in {"started", "called", "cleared"}
    /\ ret.calls < MaxSessionCalls
    /\ \E c \in SessionCalls, e \in SessionEnvs :
          LET r == two_stage_translate_and_process(c.user_text, c.target_lang,
                        c.source_lang, c.do_reverse, openai_client, e,
                        chat_history)
          IN  /\ call' = c
              /\ env' = e
              /\ ret' = [op |-> "called", raised |-> r.raised,
                         returned |-> r.returned, before |-> chat_history,
                         calls |-> ret.calls + 1,
                         results |-> ret.results + (IF r.returned THEN 1 ELSE 0)]
              /\ chat_history' = r.history
    /\ UNCHANGED openai_client

\* the Clear History button
ClearHistory ==
    /\ ret.op \in {"started", "called", "cleared"}
    /\ chat_history' = <<>>
    /\ ret' = [ret EXCEPT !.op = "cleared", !.before = chat_history, !.results = 0]
    /\ UNCHANGED <<openai_client, call, env>>

NextSession == SessionCall \/ ClearHistory

SpecSession == InitSession /\ [][NextSession]_vars

\* C26: a call that returns no result leaves chat_history as it found it;
\* the length of chat_history is the number of calls that returned a result
\* since the session started or Clear History emptied it.
C26_HistoryCountsResults ==
    ret.op \in {"started", "called", "cleared"} =>
        /\ Len(chat_history) = ret.results
        /\ (ret.op = "called" /\ ~ret.returned) => chat_history = ret.before
        /\ ret.op = "cleared" => chat_history = <<>>

C26_Witness ==
    /\ ret.op = "called"
    /\ ret.calls = 3
    /\ ret.results = 2
    /\ ~ret.returned
    /\ ~ret.raised
    /\ env.reply = NO_CHOICES
    /\ Len(chat_history) = 2
    /\ chat_history = ret.before

====
